---- MODULE Spec2Model ----
(***************************************************************************)
(* HyperHealth at-rest encryption helpers.                                 *)
(*                                                                         *)
(*   records/encryption.py : derive_user_key, encrypt_data, decrypt_data,  *)
(*                           load_master_key, get_user_encryption_key      *)
(*   security/crypto.py    : _get_master_key, encrypt_data, decrypt_data   *)
(*                                                                         *)
(* Byte strings are sequences over 0..255, text strings are sequences of   *)
(* code points.  The two modules define functions of the same name; the    *)
(* model prefixes them with records_ and security_.                        *)
(*                                                                         *)
(* The third-party primitives (AES-GCM, PBKDF2, SHA-256) are modelled by   *)
(* their contract: a keystream cipher with a 16-byte tag that is           *)
(* collision-free on the modelled domain, and digests that are injective   *)
(* on the modelled inputs.  base64 and hex decoding are modelled           *)
(* character by character as the standard library computes them.           *)
(***************************************************************************)
EXTENDS Integers, Sequences, FiniteSets, TLC

VARIABLES
  variant,   \* "records" or "security": the module whose pair is exercised
  pc,        \* position of the encrypt / tamper / decrypt sequence
  plain,     \* the plaintext handed to encrypt_data
  key,       \* records: the key argument
  iv,        \* records: the iv argument; security: the nonce argument or None
  env,       \* os.environ["HYPERHEALTH_MASTER_KEY"], None when unset
  enc,       \* the last encrypt_data call: environment seen, result
  held,      \* the pair of values handed to decrypt_data
  dec,       \* the last decrypt_data call: environment seen, result
  tampered,  \* whether a bit of held was flipped since encrypt_data returned
  file,      \* contents of master.key in the working directory, None if absent
  procs,     \* per process: position in load_master_key, its local key
  rets,      \* the values load_master_key returned, in order of return
  writes,    \* number of writes made to master.key
  ukey,      \* the EncryptionKey get_user_encryption_key returned last
  derived,   \* log of derive_user_key calls
  encLog     \* log of records encrypt_data calls made with ukey

cipherVars == <<variant, pc, plain, key, iv, env, enc, held, dec, tampered>>
fileVars == <<file, procs, rets, writes>>
userVars == <<ukey, derived, encLog>>
vars == <<cipherVars, fileVars, userVars>>

\* ------------------------------------------------------------ bounds
\* Longest plaintext of the cipher specification.
MaxPlain == 2
\* Calls of load_master_key each process makes.
MaxCalls == 2
\* Entries kept in each log of the user-key specification.
MaxLog == 3
\* Processes sharing the working directory.
NumProcs == 2

\* ------------------------------------------------------------ values
\* The absent value: no byte string and no text holds -1.
None == <<-1>>
NoCall == [op |-> "none"]

Ok(v) == [ok |-> TRUE, val |-> v, err |-> ""]
Err(e) == [ok |-> FALSE, val |-> <<>>, err |-> e]

Min(a, b) == IF a < b THEN a ELSE b

\* Bitwise exclusive or of two bytes, tabulated once.
RECURSIVE XorBits(_, _)
XorBits(a, b) ==
  IF a = 0 THEN b
  ELSE IF b = 0 THEN a
  ELSE (((a % 2) + (b % 2)) % 2) + 2 * XorBits(a \div 2, b \div 2)

XorTable == [a \in 0..255 |-> [b \in 0..255 |-> XorBits(a, b)]]

Xor(a, b) == XorTable[a][b]

Pow2(n) == IF n = 0 THEN 1 ELSE IF n = 1 THEN 2 ELSE IF n = 2 THEN 4
           ELSE IF n = 3 THEN 8 ELSE IF n = 4 THEN 16 ELSE IF n = 5 THEN 32
           ELSE IF n = 6 THEN 64 ELSE 128

\* s with bit `bit` (0..7) of its element at `pos` inverted.
FlipBit(s, pos, bit) == [s EXCEPT ![pos] = Xor(@, Pow2(bit))]

\* A function over 1..n as a sequence in tuple form.  (In the primitives below
\* a CHOOSE over a one-element set binds an argument to its value once.)
Tuple(f) == f \o <<>>

\* ------------------------------------------------------------ base64
PadChar == 61

B64Char(v) ==
  IF v < 26 THEN 65 + v
  ELSE IF v < 52 THEN 97 + (v - 26)
  ELSE IF v < 62 THEN 48 + (v - 52)
  ELSE IF v = 62 THEN 43 ELSE 47

\* The decoding table: the 6-bit value of an alphabet character, -1 otherwise.
B64Val(c) ==
  IF c \in 65..90 THEN c - 65
  ELSE IF c \in 97..122 THEN c - 97 + 26
  ELSE IF c \in 48..57 THEN c - 48 + 52
  ELSE IF c = 43 THEN 62
  ELSE IF c = 47 THEN 63
  ELSE -1

\* base64.b64encode(b).decode(): 3 bytes to 4 characters, '=' padded; the
\* group that starts at byte i and the groups after it.
RECURSIVE B64EncodeFrom(_, _)
B64EncodeFrom(b, i) ==
  IF i > Len(b) THEN <<>>
  ELSE IF i = Len(b) THEN
    <<B64Char(b[i] \div 4), B64Char((b[i] % 4) * 16), PadChar, PadChar>>
  ELSE IF i + 1 = Len(b) THEN
    <<B64Char(b[i] \div 4), B64Char(((b[i] % 4) * 16) + (b[i + 1] \div 16)),
      B64Char((b[i + 1] % 16) * 4), PadChar>>
  ELSE
    <<B64Char(b[i] \div 4), B64Char(((b[i] % 4) * 16) + (b[i + 1] \div 16)),
      B64Char(((b[i + 1] % 16) * 4) + (b[i + 2] \div 64)), B64Char(b[i + 2] % 64)>>
    \o B64EncodeFrom(b, i + 3)

b64encode(b) == B64EncodeFrom(b, 1)

\* One character of the non-strict decoder: st = [qp, left, pads, out, done].
A2bStep(st, c) ==
  IF st.done THEN st
  ELSE IF c = PadChar THEN
    IF st.qp >= 2 /\ st.qp + st.pads + 1 >= 4
    THEN [st EXCEPT !.pads = st.pads + 1, !.done = TRUE]
    ELSE IF st.qp >= 2 THEN [st EXCEPT !.pads = st.pads + 1] ELSE st
  ELSE IF B64Val(c) < 0 THEN st
  ELSE LET v == B64Val(c) IN
    CASE st.qp = 0 -> [st EXCEPT !.qp = 1, !.left = v, !.pads = 0]
      [] st.qp = 1 -> [st EXCEPT !.qp = 2, !.pads = 0, !.left = v % 16,
                                 !.out = Append(st.out, (st.left * 4) + (v \div 16))]
      [] st.qp = 2 -> [st EXCEPT !.qp = 3, !.pads = 0, !.left = v % 4,
                                 !.out = Append(st.out, (st.left * 16) + (v \div 4))]
      [] st.qp = 3 -> [st EXCEPT !.qp = 0, !.pads = 0, !.left = 0,
                                 !.out = Append(st.out, (st.left * 64) + v)]

RECURSIVE A2bFold(_, _, _)
A2bFold(st, s, i) ==
  IF i > Len(s) THEN st ELSE A2bFold(A2bStep(st, s[i]), s, i + 1)

\* base64.b64decode(s) of a text string, validate=False: characters outside
\* the alphabet are discarded, excess bits of the last character are ignored.
b64decode(s) ==
  IF \E i \in 1..Len(s) : s[i] > 127 THEN Err("ValueError")
  ELSE LET st == A2bFold([qp |-> 0, left |-> 0, pads |-> 0, out |-> <<>>,
                          done |-> FALSE], s, 1)
       IN IF st.done \/ st.qp = 0 THEN Ok(st.out) ELSE Err("binascii.Error")


\* ------------------------------------------------------------ hex, UTF-8
HexDigit(c) ==
  IF c \in 48..57 THEN c - 48
  ELSE IF c \in 97..102 THEN c - 97 + 10
  ELSE IF c \in 65..70 THEN c - 65 + 10
  ELSE -1

IsSpace(c) == c \in {9, 10, 11, 12, 13, 32}

\* bytes.fromhex(s): two hex digits per byte, whitespace allowed between bytes.
RECURSIVE FromHexAt(_, _, _)
FromHexAt(s, i, out) ==
  IF i > Len(s) THEN Ok(out)
  ELSE IF IsSpace(s[i]) THEN FromHexAt(s, i + 1, out)
  ELSE IF i + 1 > Len(s) THEN Err("ValueError")
  ELSE IF HexDigit(s[i]) < 0 \/ HexDigit(s[i + 1]) < 0 THEN Err("ValueError")
  ELSE FromHexAt(s, i + 2, Append(out, (16 * HexDigit(s[i])) + HexDigit(s[i + 1])))

fromhex(s) == FromHexAt(s, 1, <<>>)

\* bytes.hex(): the lower-case spelling, used to build environment values.
HexChar(v) == IF v < 10 THEN 48 + v ELSE 97 + (v - 10)

RECURSIVE ToHex(_)
ToHex(b) ==
  IF Len(b) = 0 THEN <<>>
  ELSE <<HexChar(b[1] \div 16), HexChar(b[1] % 16)>> \o ToHex(Tail(b))

\* The same key spelled in upper case.
Upper(s) == Tuple([i \in 1..Len(s) |-> IF s[i] \in 97..122 THEN s[i] - 32 ELSE s[i]])

\* str.encode(): UTF-8 of code points below 2048.
RECURSIVE encode(_)
encode(s) ==
  IF Len(s) = 0 THEN <<>>
  ELSE (IF s[1] < 128 THEN <<s[1]>>
        ELSE <<192 + (s[1] \div 64), 128 + (s[1] % 64)>>) \o encode(Tail(s))

\* ------------------------------------------------------------ primitives
\* AES key sizes and GCM nonce sizes the cipher library accepts.
ValidKeyLen(k) == Len(k) \in {16, 24, 32}
ValidIvLen(n) == Len(n) \in 8..128

KeyStream(k, n, i) ==
  Xor(Xor(k[((i - 1) % Len(k)) + 1], n[((i - 1) % Len(n)) + 1]), i % 256)

\* The GCM keystream: encryption and decryption are the same XOR.
GcmCrypt(key_, nonce_, data_) ==
  CHOOSE out \in
    {Tuple([i \in 1..Len(d) |-> Xor(d[i], KeyStream(k, n, i))]) :
       k \in {key_}, n \in {nonce_}, d \in {data_}} : TRUE

\* The 16-byte GCM tag over the ciphertext: a keyed function of (key, nonce,
\* ciphertext) without collisions for ciphertexts of up to 15 bytes.
GcmTag(key_, nonce_, ct_) ==
  CHOOSE tag \in
    {Tuple([i \in 1..16 |->
        Xor(IF i = 1 THEN Len(ct) % 256 ELSE IF i - 1 <= Len(ct) THEN ct[i - 1] ELSE 0,
            KeyStream(k, n, i + 100))]) :
       k \in {key_}, n \in {nonce_}, ct \in {ct_}} : TRUE

\* hashlib.sha256(x).digest(): 32 bytes, injective on inputs of up to 30 bytes.
sha256(data) ==
  CHOOSE digest \in
    {Tuple([i \in 1..32 |->
        Xor(IF i = 1 THEN Len(xs) % 256 ELSE IF i - 1 <= Len(xs) THEN xs[i - 1] ELSE 0,
            (91 + (7 * i)) % 256)]) : xs \in {data}} : TRUE

\* hashlib.pbkdf2_hmac("sha256", password, salt, rounds, dklen): dklen bytes,
\* a function of password and salt alone; each 32-byte block reads the salt
\* from another offset.
pbkdf2_hmac(password, salt, dklen) ==
  CHOOSE dk \in
    {Tuple([i \in 1..dklen |->
        Xor(Xor(IF Len(pw) = 0 THEN 0 ELSE pw[((i - 1) % Len(pw)) + 1],
                st[((i - 1 + ((i - 1) \div Len(st))) % Len(st)) + 1]),
            (i * 5) % 256)]) : pw \in {password}, st \in {salt}} : TRUE

\* ------------------------------------------------------------ records/encryption.py
\* encrypt_data(data, key, iv) -> (base64 ciphertext, base64 tag)
records_encrypt_data(data, k, n) ==
  IF ~ValidKeyLen(k) THEN Err("ValueError")
  ELSE IF ~ValidIvLen(n) THEN Err("ValueError")
  ELSE LET ct == GcmCrypt(k, n, data)
       IN Ok(<<b64encode(ct), b64encode(GcmTag(k, n, ct))>>)

\* decrypt_data that never compares the tag.
records_decrypt_data_no_tag_check(ciphertext_b64, tag_b64, k, n) ==
  LET ct == b64decode(ciphertext_b64)
  IN IF ~ct.ok THEN Err(ct.err) ELSE Ok(GcmCrypt(k, n, ct.val))

\* decrypt_data(ciphertext_b64, tag_b64, key, iv) -> plaintext
records_decrypt_data(ciphertext_b64, tag_b64, k, n) ==
  LET ct == b64decode(ciphertext_b64)
      tag == b64decode(tag_b64)
  IN IF ~ct.ok THEN Err(ct.err)
     ELSE IF ~tag.ok THEN Err(tag.err)
     ELSE IF ~ValidKeyLen(k) THEN Err("ValueError")
     ELSE IF ~ValidIvLen(n) THEN Err("ValueError")
     ELSE IF Len(tag.val) < 16 THEN Err("ValueError")
     ELSE IF Len(tag.val) > 16 THEN Err("TagLengthError")
     ELSE IF tag.val # GcmTag(k, n, ct.val) THEN Err("InvalidTag")
     ELSE Ok(GcmCrypt(k, n, ct.val))

\* salt = hashlib.sha256(user_id.encode()).digest()
user_salt(user_id) == sha256(encode(user_id))

\* derive_user_key whose iv is the first half of the derivation again.
derive_user_key_same_half(master_key, user_id) ==
  LET dk == pbkdf2_hmac(master_key, user_salt(user_id), 64)
  IN <<SubSeq(dk, 1, 32), SubSeq(dk, 1, 32)>>

\* derive_user_key(master_key, user_id) -> (key, iv)
derive_user_key(master_key, user_id) ==
  LET salt == user_salt(user_id)
      dk == pbkdf2_hmac(master_key, salt, 64)
  IN <<SubSeq(dk, 1, 32), SubSeq(dk, 33, 64)>>

\* ------------------------------------------------------------ security/crypto.py
\* _get_master_key that falls back to a built-in key when the variable is unset
\* or cannot be decoded.
get_master_key_with_default ==
  IF env = None \/ ~fromhex(env).ok THEN Ok(Tuple([i \in 1..32 |-> 0])) ELSE fromhex(env)

\* _get_master_key that keeps the key of the first successful encrypt_data.
get_master_key_cached ==
  IF enc # NoCall /\ enc.res.ok THEN fromhex(enc.env)
  ELSE IF env = None THEN Err("RuntimeError") ELSE fromhex(env)

\* _get_master_key(): the environment variable, hex-decoded, read at the call.
_get_master_key ==
  IF env = None THEN Err("RuntimeError") ELSE fromhex(env)

\* encrypt_data that returns its nonce argument, not the nonce it used.
security_encrypt_data_returns_argument(plaintext, nonce, rnd) ==
  LET n == IF nonce = None THEN rnd ELSE nonce
      mk == _get_master_key
  IN IF ~mk.ok THEN Err(mk.err)
     ELSE IF ~ValidKeyLen(mk.val) THEN Err("ValueError")
     ELSE IF ~ValidIvLen(n) THEN Err("ValueError")
     ELSE LET ct == GcmCrypt(mk.val, n, plaintext)
          IN Ok(<<ct \o GcmTag(mk.val, n, ct), nonce>>)

\* encrypt_data(plaintext, nonce=None) -> (ciphertext, nonce); rnd is what
\* _generate_random_bytes(12) returns when it is called.
security_encrypt_data(plaintext, nonce, rnd) ==
  LET n == IF nonce = None THEN rnd ELSE nonce
      mk == _get_master_key
  IN IF ~mk.ok THEN Err(mk.err)
     ELSE IF ~ValidKeyLen(mk.val) THEN Err("ValueError")
     ELSE IF ~ValidIvLen(n) THEN Err("ValueError")
     ELSE LET ct == GcmCrypt(mk.val, n, plaintext)
          IN Ok(<<ct \o GcmTag(mk.val, n, ct), n>>)

\* decrypt_data(ciphertext, nonce) -> plaintext
security_decrypt_data(ciphertext, nonce) ==
  LET mk == _get_master_key
  IN IF ~mk.ok THEN Err(mk.err)
     ELSE IF ~ValidKeyLen(mk.val) THEN Err("ValueError")
     ELSE IF ~ValidIvLen(nonce) THEN Err("ValueError")
     ELSE IF Len(ciphertext) < 16 THEN Err("InvalidTag")
     ELSE LET ct == SubSeq(ciphertext, 1, Len(ciphertext) - 16)
              tag == SubSeq(ciphertext, Len(ciphertext) - 15, Len(ciphertext))
          IN IF tag # GcmTag(mk.val, nonce, ct) THEN Err("InvalidTag")
             ELSE Ok(GcmCrypt(mk.val, nonce, ct))

\* ------------------------------------------------------------ inputs
RECURSIVE SeqsUpTo(_, _)
SeqsUpTo(S, n) ==
  IF n = 0 THEN {<<>>}
  ELSE LET shorter == SeqsUpTo(S, n - 1)
       IN shorter \cup {Append(q, b) : q \in {t \in shorter : Len(t) = n - 1}, b \in S}

Plaintexts == SeqsUpTo({0, 255}, MaxPlain)

KeyA == Tuple([i \in 1..32 |-> i])
KeyB == Tuple([i \in 1..16 |-> 255 - (3 * i)])
KeyShort == <<1, 2, 3, 4, 5>>
Keys == {KeyA, KeyB, KeyShort}

IvA == Tuple([i \in 1..32 |-> (i * 11) % 256])
IvB == Tuple([i \in 1..12 |-> 200 - i])
IvShort == <<9, 9, 9, 9>>
IVs == {IvA, IvB, IvShort}

NonceArgs == {None, IvB, IvShort}
RandomNonces == {Tuple([i \in 1..12 |-> 40 + i]), Tuple([i \in 1..12 |-> 90 - i])}

\* Values of HYPERHEALTH_MASTER_KEY: unset, two keys (one also spelled in
\* upper case), text that is not hexadecimal, a key of a wrong size.
EnvValues == {None, ToHex(KeyA), Upper(ToHex(KeyA)), ToHex(KeyB),
              <<122, 122, 49>>, ToHex(KeyShort)}

\* ------------------------------------------------------------ cipher actions
CipherIdle ==
  /\ variant = "none" /\ pc = "off" /\ plain = <<>> /\ key = <<>> /\ iv = <<>>
  /\ env = None /\ enc = NoCall /\ held = <<>> /\ dec = NoCall
  /\ tampered = FALSE

FileIdle ==
  /\ file = None /\ procs = <<>> /\ rets = <<>> /\ writes = 0

UserIdle ==
  /\ ukey = NoCall /\ derived = {} /\ encLog = {}

CipherInit ==
  /\ variant \in {"records", "security"}
  /\ pc = "start"
  /\ plain \in Plaintexts
  /\ IF variant = "records"
     THEN key \in Keys /\ iv \in IVs /\ env = None
     ELSE key = <<>> /\ iv \in NonceArgs /\ env \in EnvValues
  /\ enc = NoCall /\ held = <<>> /\ dec = NoCall /\ tampered = FALSE

Init == CipherInit /\ FileIdle /\ UserIdle

\* The caller runs records encrypt_data(plain, key, iv).
RecEncrypt ==
  /\ variant = "records" /\ pc = "start"
  /\ LET r == records_encrypt_data(plain, key, iv)
     IN /\ enc' = [op |-> "enc", env |-> env, res |-> r]
        /\ held' = r.val
        /\ pc' = IF r.ok THEN "encrypted" ELSE "failed"
  /\ UNCHANGED <<variant, plain, key, iv, env, dec, tampered, fileVars, userVars>>

\* The caller runs records decrypt_data(held[1], held[2], key, iv).
RecDecrypt ==
  /\ variant = "records" /\ pc = "encrypted"
  /\ dec' = [op |-> "dec", env |-> env,
             res |-> records_decrypt_data(held[1], held[2], key, iv)]
  /\ pc' = "decrypted"
  /\ UNCHANGED <<variant, plain, key, iv, env, enc, held, tampered, fileVars, userVars>>

\* One bit of a stored value is inverted between the two calls: of either
\* base64 string (records), of the ciphertext bytes (security).
Tamper(f, pos, bit) ==
  /\ pc = "encrypted" /\ ~tampered
  /\ f = 1 \/ variant = "records"
  /\ pos \in 1..Len(held[f])
  /\ held' = [held EXCEPT ![f] = FlipBit(held[f], pos, bit)]
  /\ tampered' = TRUE
  /\ UNCHANGED <<variant, pc, plain, key, iv, env, enc, dec, fileVars, userVars>>

\* The environment variable is set, changed or unset.
SetEnv(v) ==
  /\ variant = "security" /\ pc \in {"start", "encrypted"}
  /\ v # env
  /\ env' = v
  /\ UNCHANGED <<variant, pc, plain, key, iv, enc, held, dec, tampered, fileVars, userVars>>

\* The caller runs security encrypt_data(plain, iv).
SecEncrypt(rnd) ==
  /\ variant = "security" /\ pc = "start"
  /\ LET r == security_encrypt_data(plain, iv, rnd)
     IN /\ enc' = [op |-> "enc", env |-> env, res |-> r]
        /\ held' = r.val
        /\ pc' = IF r.ok THEN "encrypted" ELSE "failed"
  /\ UNCHANGED <<variant, plain, key, iv, env, dec, tampered, fileVars, userVars>>

\* The caller runs security decrypt_data(held[1], held[2]).
SecDecrypt ==
  /\ variant = "security" /\ pc = "encrypted"
  /\ dec' = [op |-> "dec", env |-> env,
             res |-> security_decrypt_data(held[1], held[2])]
  /\ pc' = "decrypted"
  /\ UNCHANGED <<variant, plain, key, iv, env, enc, held, tampered, fileVars, userVars>>

Next ==
  \/ RecEncrypt
  \/ RecDecrypt
  \/ \E f \in 1..2, pos \in 1..64, bit \in 0..7 : Tamper(f, pos, bit)
  \/ \E v \in EnvValues : SetEnv(v)
  \/ \E rnd \in RandomNonces : SecEncrypt(rnd)
  \/ SecDecrypt

Spec == Init /\ [][Next]_vars

\* ------------------------------------------------------------ load_master_key
Procs == 1..NumProcs

KeyC == Tuple([i \in 1..32 |-> (i * 7) % 256])
\* What os.urandom(32) may return.
RandomKeys == {KeyA, KeyC}

FileInit ==
  /\ file = None
  /\ procs = [p \in Procs |-> [pc |-> "idle", key |-> <<>>, calls |-> 0]]
  /\ rets = <<>>
  /\ writes = 0

AllIdle == \A q \in Procs : procs[q].pc = "idle"

\* A process enters load_master_key and builds the path of master.key.
LmkCall(p) ==
  /\ procs[p].pc = "idle" /\ procs[p].calls < MaxCalls
  /\ procs' = [procs EXCEPT ![p].pc = "exists", ![p].calls = @ + 1]
  /\ UNCHANGED <<file, rets, writes, cipherVars, userVars>>

\* The check without its test: the key is generated whether the file exists
\* or not.
LmkExistsAlwaysGenerates(p) ==
  /\ procs[p].pc = "exists"
  /\ procs' = [procs EXCEPT ![p].pc = "generate"]
  /\ UNCHANGED <<file, rets, writes, cipherVars, userVars>>

\* if os.path.exists(path)
LmkExists(p) ==
  /\ procs[p].pc = "exists"
  /\ procs' = [procs EXCEPT ![p].pc = IF file # None THEN "read" ELSE "generate"]
  /\ UNCHANGED <<file, rets, writes, cipherVars, userVars>>

\* with open(path, "rb") as f: return f.read()
LmkRead(p) ==
  /\ procs[p].pc = "read"
  /\ rets' = Append(rets, [proc |-> p, val |-> file, wrote |-> FALSE])
  /\ procs' = [procs EXCEPT ![p].pc = "idle"]
  /\ UNCHANGED <<file, writes, cipherVars, userVars>>

\* key = os.urandom(32)
LmkGenerate(p, k) ==
  /\ procs[p].pc = "generate"
  /\ procs' = [procs EXCEPT ![p].pc = "open", ![p].key = k]
  /\ UNCHANGED <<file, rets, writes, cipherVars, userVars>>

\* open(path, "wb"): the file is created, or truncated if it exists.
LmkOpenWrite(p) ==
  /\ procs[p].pc = "open"
  /\ file' = <<>>
  /\ procs' = [procs EXCEPT ![p].pc = "write"]
  /\ UNCHANGED <<rets, writes, cipherVars, userVars>>

\* f.write(key), the close that flushes it, and return key.
LmkWrite(p) ==
  /\ procs[p].pc = "write"
  /\ file' = procs[p].key
  /\ writes' = writes + 1
  /\ rets' = Append(rets, [proc |-> p, val |-> procs[p].key, wrote |-> TRUE])
  /\ procs' = [procs EXCEPT ![p].pc = "idle", ![p].key = <<>>]
  /\ UNCHANGED <<cipherVars, userVars>>

LmkStep(p) ==
  \/ LmkExists(p)
  \/ LmkRead(p)
  \/ \E k \in RandomKeys : LmkGenerate(p, k)
  \/ LmkOpenWrite(p)
  \/ LmkWrite(p)

InitFile == CipherIdle /\ FileInit /\ UserIdle

\* Calls one after the other: a call starts when no other is in progress.
NextSeq ==
  \E p \in Procs :
    \/ AllIdle /\ LmkCall(p)
    \/ LmkStep(p)

SpecSeq == InitFile /\ [][NextSeq]_vars

\* Calls of concurrent processes, interleaved in any way.
NextConc ==
  \E p \in Procs :
    \/ LmkCall(p)
    \/ LmkStep(p)

SpecConc == InitFile /\ [][NextConc]_vars

\* ------------------------------------------------------------ user keys
UserIds == {<<>>, <<97>>, <<97, 98>>, <<233>>}
MasterKeys == {<<>>, KeyA, KeyC}
Payloads == {q \in Plaintexts : Len(q) <= 1}

\* load_master_key() run to completion with no other process in between:
\* what it returns and what it leaves in master.key; k is os.urandom(32).
load_master_key(k) ==
  IF file # None THEN [ret |-> file, file |-> file, wrote |-> FALSE]
  ELSE [ret |-> k, file |-> k, wrote |-> TRUE]

DeriveEntry(m, u) ==
  LET d == derive_user_key(m, u)
  IN [master |-> m, uid |-> u, salt |-> user_salt(u), key |-> d[1], iv |-> d[2]]

\* A caller runs derive_user_key(m, u).
DeriveUserKey(m, u) ==
  /\ Cardinality(derived) < MaxLog
  /\ \A d \in derived : d.master # m \/ d.uid # u
  /\ derived' = derived \cup {DeriveEntry(m, u)}
  /\ UNCHANGED <<ukey, encLog, fileVars, cipherVars>>

\* get_user_encryption_key(u): load_master_key, derive_user_key, EncryptionKey.
get_user_encryption_key(u, k) ==
  LET lmk == load_master_key(k)
      d == derive_user_key(lmk.ret, u)
  IN /\ file' = lmk.file
     /\ writes' = IF lmk.wrote THEN writes + 1 ELSE writes
     /\ ukey' = [op |-> "key", uid |-> u, key |-> d[1], iv |-> d[2]]
     /\ ukey' # ukey
     /\ UNCHANGED <<derived, encLog, procs, rets, cipherVars>>

\* A caller encrypts a record with the EncryptionKey it was given.
EncryptRecord(data) ==
  /\ ukey # NoCall
  /\ Cardinality(encLog) < MaxLog
  /\ \A e \in encLog : e.uid # ukey.uid \/ e.data # data
  /\ encLog' = encLog \cup
       {[uid |-> ukey.uid, key |-> ukey.key, iv |-> ukey.iv, data |-> data,
         res |-> records_encrypt_data(data, ukey.key, ukey.iv)]}
  /\ UNCHANGED <<ukey, derived, fileVars, cipherVars>>

InitUser ==
  /\ CipherIdle
  /\ file \in {None} \cup RandomKeys
  /\ procs = <<>> /\ rets = <<>> /\ writes = 0
  /\ UserIdle

\* Callers of derive_user_key alone.
NextDerive ==
  \E m \in MasterKeys, u \in UserIds : DeriveUserKey(m, u)

SpecDerive == InitUser /\ [][NextDerive]_vars

\* Callers that fetch an EncryptionKey and encrypt records with it.
NextUser ==
  \/ \E u \in UserIds, k \in RandomKeys : get_user_encryption_key(u, k)
  \/ \E data \in Payloads : EncryptRecord(data)

SpecUser == InitUser /\ [][NextUser]_vars

\* ------------------------------------------------------------ cipher claims
\* What each value of the environment variable decodes to.
DecodedKeys == [e \in EnvValues |-> IF e = None THEN Err("RuntimeError") ELSE fromhex(e)]
DecodedKey(e) == DecodedKeys[e]
ValidEnv(e) == DecodedKey(e).ok /\ ValidKeyLen(DecodedKey(e).val)
BadEnv(e) == ~DecodedKey(e).ok
SameKeyAtBothCalls ==
  /\ ValidEnv(enc.env) /\ ValidEnv(dec.env)
  /\ DecodedKey(enc.env).val = DecodedKey(dec.env).val
Decrypted == dec # NoCall
CallStep == enc' # enc \/ dec' # dec

\* C1: round trip.  decrypt_data of the untouched values encrypt_data returned
\* gives back exactly the plaintext: records with the same valid key and iv,
\* security with the environment variable holding the same valid key at both
\* calls (nonce supplied or generated).
C1_RoundTrip ==
  (Decrypted /\ ~tampered /\ (variant = "security" => SameKeyAtBothCalls))
    => (dec.res.ok /\ dec.res.val = plain)

\* C1 witness: a non-empty plaintext encrypted by the security variant under a
\* generated nonce and decrypted after the variable was re-spelled.
C1_Witness ==
  /\ variant = "security" /\ Decrypted /\ ~tampered
  /\ iv = None /\ Len(plain) > 0 /\ enc.env # dec.env
  /\ dec.res.ok /\ dec.res.val = plain

\* C2 (as claimed): after any single-bit flip of a value encrypt_data returned,
\* decrypt_data fails and returns no plaintext.
C2_AnyFlipFails ==
  (Decrypted /\ tampered) => ~dec.res.ok

\* C2 (amended): after a single-bit flip, security decrypt_data fails; records
\* decrypt_data fails unless both flipped strings still base64-decode to the
\* bytes encrypt_data encoded, and then it returns the original plaintext.
C2_FlipFailsOrSameBytes ==
  (Decrypted /\ tampered) =>
    \/ ~dec.res.ok
    \/ /\ variant = "records"
       /\ b64decode(held[1]) = b64decode(enc.res.val[1])
       /\ b64decode(held[2]) = b64decode(enc.res.val[2])
       /\ dec.res.val = plain

\* C2 witness: a flipped base64 tag that decodes to other bytes is rejected
\* by the tag comparison.
C2_Witness ==
  /\ variant = "records" /\ Decrypted /\ tampered
  /\ held[2] # enc.res.val[2] /\ dec.res.err = "InvalidTag"

\* C4: with the variable absent or not hexadecimal, encrypt_data and
\* decrypt_data end in RuntimeError / ValueError, return nothing, and the call
\* leaves the environment and the key file as they were.
C4_MissingKeyIsFatal ==
  /\ [](variant = "security" =>
         /\ (enc # NoCall /\ BadEnv(enc.env)) =>
              (~enc.res.ok /\ enc.res.val = <<>>
               /\ enc.res.err = (IF enc.env = None THEN "RuntimeError" ELSE "ValueError"))
         /\ (dec # NoCall /\ BadEnv(dec.env)) =>
              (~dec.res.ok /\ dec.res.val = <<>>
               /\ dec.res.err = (IF dec.env = None THEN "RuntimeError" ELSE "ValueError")))
  /\ [][CallStep => (env' = env /\ file' = file)]_vars

\* C4 witness: a ciphertext made under a valid key, decrypted after the
\* variable was unset.
C4_Witness ==
  /\ variant = "security" /\ Decrypted /\ enc.res.ok
  /\ dec.env = None /\ dec.res.err = "RuntimeError"

\* C5: every call uses the variable's value at that call.  decrypt_data
\* succeeds exactly when the variable then holds the key encrypt_data used (and
\* nothing was flipped), encrypt_data succeeds only under a valid key, and no
\* call changes the environment or the key file.
C5_KeyReadAtEachCall ==
  /\ [](variant = "security" =>
         /\ (enc # NoCall /\ enc.res.ok) => ValidEnv(enc.env)
         /\ Decrypted => (dec.res.ok <=> (SameKeyAtBothCalls /\ ~tampered)))
  /\ [][CallStep => (env' = env /\ file' = file)]_vars

\* C5 witness: decrypt_data issued after the variable was changed to another
\* valid key fails.
C5_Witness ==
  /\ variant = "security" /\ Decrypted /\ ~tampered
  /\ ValidEnv(enc.env) /\ ValidEnv(dec.env)
  /\ DecodedKey(enc.env).val # DecodedKey(dec.env).val
  /\ dec.res.err = "InvalidTag"

\* C8: the ciphertext security encrypt_data returns starts with the nonce it
\* returns.
C8_CiphertextStartsWithNonce ==
  (variant = "security" /\ enc # NoCall /\ enc.res.ok) =>
    SubSeq(enc.res.val[1], 1, 12) = enc.res.val[2]

\* ------------------------------------------------------------ key file claims
\* C3: sequential calls in a directory that starts without master.key.  The
\* first call writes the file once and returns 32 bytes; every later call
\* returns the same bytes and writes nothing; the file keeps those bytes.
C3_LoadIdempotent ==
  \A i \in 1..Len(rets) :
    /\ Len(rets[i].val) = 32
    /\ rets[i].wrote <=> (i = 1)
    /\ rets[i].val = rets[1].val
    /\ writes = 1
    /\ AllIdle => file = rets[1].val

\* C3 witness: three calls returned, made by more than one process.
C3_Witness ==
  /\ Len(rets) >= 3 /\ AllIdle
  /\ rets[1].proc # rets[2].proc
  /\ rets[3].val = rets[1].val /\ ~rets[3].wrote

\* C7: every value load_master_key returns, read from master.key or just
\* generated, is exactly 32 bytes, under any interleaving.
C7_AlwaysThirtyTwoBytes ==
  \A i \in 1..Len(rets) : Len(rets[i].val) = 32

\* C9: under any interleaving at most one call writes a key, a written
\* master.key never changes, and all calls return the same bytes.
C9_GeneratedOnce ==
  /\ [](/\ writes <= 1
        /\ \A i \in 1..Len(rets) : rets[i].val = rets[1].val)
  /\ [][(file # None /\ Len(file) = 32) => file' = file]_vars

C10_NoNonceReuse ==
  \A a, b \in encLog :
    a.data # b.data => <<a.key, a.iv>> # <<b.key, b.iv>>
====
